---------------------------- MODULE Spec2Model ----------------------------
(***************************************************************************)
(* Model of the credential subsystem of chat__auth_server:                 *)
(*   src/src/utils/generate_tokens.rs      generate_tokens                 *)
(*   src/src/utils/hashing_handler.rs      hashing_handler                 *)
(*   src/src/utils/verification_handler.rs verification_handler            *)
(*   src/src/utils/load_config.rs          AppConfig, AppConfig::validate  *)
(*   src/src/utils/cookie_deploy_handler.rs deploy_auth_cookie             *)
(*   src/src/main.rs                       main (startup)                  *)
(*   src/src/middlewares/request_timeout_middleware.rs timeout_middleware  *)
(*   src/src/core/router.rs                /register, /login               *)
(*                                                                         *)
(* Conventions.                                                            *)
(*  - Option<T> is a sequence of length 0 (None) or 1 (Some(x)).           *)
(*  - A Rust String that the code inspects or hashes is a sequence of      *)
(*    one-character strings; a string the code only compares with a        *)
(*    literal (token_type) is a TLA+ string.                               *)
(*  - 64-bit integers exceed the range of TLC's integers, so a u64/usize   *)
(*    is a magnitude of five base-10^5 limbs, least significant first,     *)
(*    and an i64 is a sign and a magnitude. The casts `as i64` and         *)
(*    `as usize` wrap modulo 2^64 as they do on a 64-bit target.           *)
(*  - chrono is taken as chrono 0.4: Duration::hours/minutes panic when    *)
(*    the duration exceeds i64::MAX milliseconds; checked_add_signed is    *)
(*    None outside the representable DateTime range.                       *)
(*  - time is taken as time 0.3: Duration::hours panics when the number of *)
(*    seconds exceeds an i64.                                              *)
(*  - Argon2 and HMAC are ideal: an output is determined by, and           *)
(*    determines, its inputs; OsRng never repeats a salt.                  *)
(***************************************************************************)
EXTENDS Integers, Sequences, FiniteSets, TLC

VARIABLES config, clock, rng, task, job, argon, jar, boot, db, resp, mw

vars == <<config, clock, rng, task, job, argon, jar, boot, db, resp, mw>>

\* the state of the HTTP server around the credential subsystem: the cookies
\* of each response, the startup of main, the users table, the last response,
\* the timeout middleware of each request
serverVars == <<jar, boot, db, resp, mw>>

-----------------------------------------------------------------------------
(* Option<T> *)

None == <<>>

Some(x) == <<x>>

IsSome(o) == Len(o) = 1

IsNone(o) == Len(o) = 0

Unwrap(o) == o[1]

-----------------------------------------------------------------------------
(* 64-bit arithmetic on limb sequences *)

Base == 10^5

LimbIdx == 1..5

MagZero == <<0, 0, 0, 0, 0>>

\* a natural number below 2^31 as a magnitude
Mag(n) == <<n % Base, (n \div Base) % Base, (n \div Base) \div Base, 0, 0>>

MagAdd(a, b) ==
    LET c[i \in 0..5] == IF i = 0 THEN 0 ELSE (a[i] + b[i] + c[i - 1]) \div Base
    IN  [i \in LimbIdx |-> (a[i] + b[i] + c[i - 1]) % Base]

\* a - b for a >= b
MagSub(a, b) ==
    LET br[i \in 0..5] == IF i = 0 THEN 0
                          ELSE IF a[i] - b[i] - br[i - 1] < 0 THEN 1 ELSE 0
    IN  [i \in LimbIdx |-> (a[i] - b[i] - br[i - 1] + Base) % Base]

\* a * k for 0 <= k <= 3600
MagMul(a, k) ==
    LET c[i \in 0..5] == IF i = 0 THEN 0 ELSE (a[i] * k + c[i - 1]) \div Base
    IN  [i \in LimbIdx |-> (a[i] * k + c[i - 1]) % Base]

MagLt(a, b) ==
    \E i \in LimbIdx : a[i] < b[i] /\ \A j \in (i + 1)..5 : a[j] = b[j]

MagLe(a, b) == a = b \/ MagLt(a, b)

\* 2^63 and 2^64
Two63 == <<75808, 68547, 37203, 9223, 0>>

Two64 == <<51616, 37095, 74407, 18446, 0>>

\* a signed integer; zero is never negative
SInt(neg, mag) == [neg |-> neg /\ mag # MagZero, mag |-> mag]

SAdd(x, y) ==
    IF x.neg = y.neg THEN SInt(x.neg, MagAdd(x.mag, y.mag))
    ELSE IF MagLe(y.mag, x.mag) THEN SInt(x.neg, MagSub(x.mag, y.mag))
    ELSE SInt(y.neg, MagSub(y.mag, x.mag))

SNeg(x) == SInt(~x.neg, x.mag)

SLe(x, y) ==
    IF x.neg /\ ~y.neg THEN TRUE
    ELSE IF ~x.neg /\ y.neg THEN FALSE
    ELSE IF x.neg THEN MagLe(y.mag, x.mag)
    ELSE MagLe(x.mag, y.mag)

\* `v as i64` for a u64 v: two's complement reinterpretation
AsI64(v) == IF MagLt(v, Two63) THEN SInt(FALSE, v) ELSE SInt(TRUE, MagSub(Two64, v))

\* `x as usize` for an i64 x on a 64-bit target
AsUsize(x) == IF x.neg THEN MagSub(Two64, x.mag) ELSE x.mag

-----------------------------------------------------------------------------
(* chrono *)

\* TimeDelta::MAX in whole seconds: i64::MAX milliseconds
MaxDeltaSecs == <<54775, 20368, 22337, 9, 0>>

\* DateTime::<Utc>::MAX_UTC.timestamp(): 262142-12-31T23:59:59Z,
\* 8210266876799
MaxTimestamp == SInt(FALSE, <<76799, 2668, 821, 0, 0>>)

\* DateTime::<Utc>::MIN_UTC.timestamp(): -262143-01-02T00:00:00Z,
\* -8334601228800
MinTimestamp == SInt(TRUE, <<28800, 46012, 833, 0, 0>>)

\* Duration::hours(h) / Duration::minutes(m): the unit is 3600 or 60 seconds.
\* ok = FALSE is the panic "Duration::hours out of bounds".
DurationOf(x, unit) ==
    LET secs == MagMul(x.mag, unit)
    IN  IF MagLe(secs, MaxDeltaSecs)
        THEN [ok |-> TRUE, secs |-> SInt(x.neg, secs)]
        ELSE [ok |-> FALSE, secs |-> SInt(FALSE, MagZero)]

\* DateTime::checked_add_signed(d), on whole-second timestamps
checked_add_signed(now, d) ==
    LET t == SAdd(now, d)
    IN  IF SLe(MinTimestamp, t) /\ SLe(t, MaxTimestamp) THEN Some(t) ELSE None

\* Utc::now().timestamp() when the model clock reads c: the model starts at
\* 2026-10-29T00:00:00Z
UtcNow(c) == SInt(FALSE, MagAdd(<<32000, 17932, 0, 0, 0>>, Mag(c)))

-----------------------------------------------------------------------------
(* load_config.rs: AppConfig and AppConfig::validate *)

\* char::is_whitespace, what str::trim removes: the Unicode White_Space
\* characters. A character is a one-character string; one that cannot be
\* written in a string is named by its code point.
Whitespace ==
    {"\t", "\n", "U+000B", "\f", "\r", " ", "U+0085", "U+00A0", "U+1680",
     "U+2000", "U+2001", "U+2002", "U+2003", "U+2004", "U+2005", "U+2006",
     "U+2007", "U+2008", "U+2009", "U+200A", "U+2028", "U+2029", "U+202F",
     "U+205F", "U+3000"}

\* s.trim().is_empty()
IsBlank(s) == \A i \in DOMAIN s : s[i] \in Whitespace

AuthSection(secret, access, refresh, otp) ==
    [jwt_secret |-> secret,
     jwt_access_expiration_time_in_hours |-> access,
     jwt_refresh_expiration_time_in_hours |-> refresh,
     jwt_one_time_password_lifetime_in_minutes |-> otp]

AppConfig(app, server, database, auth) ==
    [app |-> app, server |-> server, database |-> database, auth |-> auth]

\* a variant of validate: the database section is looked at before the server
validate_DatabaseFirst(cfg) ==
    IF IsBlank(cfg.app.name) THEN "MissingAppName"
    ELSE IF IsNone(cfg.database) THEN "MissingDatabaseSection"
    ELSE IF IsNone(cfg.server) THEN "MissingServerSection"
    ELSE IF Unwrap(cfg.server).port = 0 THEN "InvalidServerPort"
    ELSE IF IsBlank(Unwrap(cfg.database).name) THEN "MissingDatabaseName"
    ELSE IF IsNone(Unwrap(cfg.database).user) THEN "MissingDatabaseUser"
    ELSE IF IsNone(Unwrap(cfg.database).password) THEN "MissingDatabasePassword"
    ELSE IF IsNone(cfg.auth) THEN "MissingAuthSection"
    ELSE IF IsBlank(Unwrap(cfg.auth).jwt_secret) THEN "MissingJwtSecret"
    ELSE "Ok"

\* AppConfig::validate: "Ok", or the ConfigError of the first check that fails
validate(cfg) ==
    IF IsBlank(cfg.app.name) THEN "MissingAppName"
    ELSE IF IsNone(cfg.server) THEN "MissingServerSection"
    ELSE IF Unwrap(cfg.server).port = 0 THEN "InvalidServerPort"
    ELSE IF IsNone(cfg.database) THEN "MissingDatabaseSection"
    ELSE IF IsBlank(Unwrap(cfg.database).name) THEN "MissingDatabaseName"
    ELSE IF IsNone(Unwrap(cfg.database).user) THEN "MissingDatabaseUser"
    ELSE IF IsNone(Unwrap(cfg.database).password) THEN "MissingDatabasePassword"
    ELSE IF IsNone(cfg.auth) THEN "MissingAuthSection"
    ELSE IF IsBlank(Unwrap(cfg.auth).jwt_secret) THEN "MissingJwtSecret"
    ELSE "Ok"

-----------------------------------------------------------------------------
(* Argon2 and PHC strings (argon2, password-hash crates)                   *)
(* A PHC string is the sequence of its '$'-separated fields. A field is a  *)
(* literal text, the Base64 of a salt, or the Base64 of an Argon2 output.  *)

Field(tag, s, ver, par, n, plain) ==
    [tag |-> tag, s |-> s, ver |-> ver, par |-> par, n |-> n, plain |-> plain]

Lit(s) == Field("lit", s, "", "", <<0, 0>>, <<>>)

\* the Base64 text of a 16-byte salt drawn from OsRng. n identifies the draw:
\* <<t, k>> is the k-th draw made for request t, <<0, 0>> a draw made before
\* the run; two draws never yield the same salt
SaltField(n) == Field("salt", "", "", "", n, <<>>)

\* the Base64 text of the Argon2 output for these inputs
OutputField(alg, ver, par, n, plain) == Field("output", alg, ver, par, n, plain)

\* Argon2::default(): Argon2id, version 0x13, Params::DEFAULT
DefaultAlgorithm == "argon2id"

DefaultVersion == "v=19"

DefaultParams == "m=19456,t=2,p=1"

Argon2Algorithms == {"argon2d", "argon2i", "argon2id"}

\* PasswordHash::to_string of argon2.hash_password(password, salt)
hash_password(password, n) ==
    <<Lit(""), Lit(DefaultAlgorithm), Lit(DefaultVersion), Lit(DefaultParams),
      SaltField(n),
      OutputField(DefaultAlgorithm, DefaultVersion, DefaultParams, n, password)>>

Idents == Argon2Algorithms \cup {"scrypt", "pbkdf2-sha256"}

Versions == {"v=16", "v=19"}

IsIdent(f) == f.tag = "lit" /\ f.s \in Idents

IsVersion(f) == f.tag = "lit" /\ f.s \in Versions

IsParams(f) == f.tag = "lit" /\ f.s \in {DefaultParams, "m=8,t=1,p=1"}

IsSalt(f) == f.tag = "salt"

IsOutput(f) == f.tag = "output"

ParseError == [ok |-> FALSE, algorithm |-> "", version |-> "", params |-> "",
               salt |-> None, hash |-> None]

\* PasswordHash::new(s): $<id>[$v=<version>][$<params>][$<salt>[$<hash>]]
PasswordHashNew(s) ==
    IF Len(s) < 2 \/ s[1] # Lit("") \/ ~IsIdent(s[2]) THEN ParseError
    ELSE
      LET hasVer  == Len(s) >= 3 /\ IsVersion(s[3])
          iPar    == IF hasVer THEN 4 ELSE 3
          hasPar  == Len(s) >= iPar /\ IsParams(s[iPar])
          iSalt   == IF hasPar THEN iPar + 1 ELSE iPar
          hasSalt == Len(s) >= iSalt
          hasHash == Len(s) >= iSalt + 1
      IN  IF hasSalt /\ ~IsSalt(s[iSalt]) THEN ParseError
          ELSE IF hasHash /\ ~IsOutput(s[iSalt + 1]) THEN ParseError
          ELSE IF Len(s) > iSalt + 1 THEN ParseError
          ELSE [ok |-> TRUE,
                algorithm |-> s[2].s,
                version |-> IF hasVer THEN s[3].s ELSE "",
                params |-> IF hasPar THEN s[iPar].s ELSE "",
                salt |-> IF hasSalt THEN Some(s[iSalt]) ELSE None,
                hash |-> IF hasHash THEN Some(s[iSalt + 1]) ELSE None]

\* whether verify_password reaches the Argon2 computation for a parsed hash
verify_computes(parsed) ==
    /\ IsSome(parsed.salt)
    /\ IsSome(parsed.hash)
    /\ parsed.algorithm \in Argon2Algorithms

\* Argon2::default().verify_password(password, &parsed).is_ok()
verify_password(password, parsed) ==
    /\ verify_computes(parsed)
    /\ Unwrap(parsed.hash) =
         OutputField(parsed.algorithm,
                     IF parsed.version = "" THEN DefaultVersion ELSE parsed.version,
                     IF parsed.params = "" THEN DefaultParams ELSE parsed.params,
                     Unwrap(parsed.salt).n, password)

-----------------------------------------------------------------------------
(* jsonwebtoken: encode with Header::default() (HS256) and decode *)

HeaderDefault == [alg |-> "HS256", typ |-> "JWT"]

\* the HMAC-SHA256 tag of a message under a key
HmacSha256(key, msg) == [key |-> key, msg |-> msg]

\* serde_json of Claims: the payload of the token
Serialize(claims) ==
    [id |-> claims.id, email |-> claims.email, exp |-> claims.exp, iat |-> claims.iat]

encode(header, claims, key) ==
    [header |-> header,
     payload |-> Serialize(claims),
     signature |-> HmacSha256(key, <<header, Serialize(claims)>>)]

\* Validation::default().leeway, in seconds
Leeway == Mag(60)

\* decode::<Claims>(token, key, &Validation::default()) at the instant now:
\* the algorithm and the signature are checked, then exp is validated (a
\* token whose exp is before now - leeway is rejected, ExpiredSignature),
\* then the payload is returned as Claims
decode(token, key, now) ==
    IF token.header.alg # "HS256"
       \/ token.signature # HmacSha256(key, <<token.header, token.payload>>)
    THEN None
    ELSE IF MagLt(token.payload.exp, MagSub(now, Leeway))
    THEN None
    ELSE Some([id |-> token.payload.id, email |-> token.payload.email,
               exp |-> token.payload.exp, iat |-> token.payload.iat])

-----------------------------------------------------------------------------
(* generate_tokens.rs *)

Claims(id, email, exp, iat) == [id |-> id, email |-> email, exp |-> exp, iat |-> iat]

User(id, email) == [id |-> id, email |-> email]

Tokens(access, refresh, otp, cookie) ==
    [access_token |-> access, refresh_token |-> refresh,
     one_time_password_token |-> otp, auth_cookie |-> cookie]

NoTokens == Tokens(None, None, None, None)

\* the outcome of a call: kind is "None" (not returned yet), "Ok", "Err" or
\* "Panic"; err names the error variant and arg its payload; tokens, hash
\* and flag carry the Ok value of generate_tokens, hashing_handler and
\* verification_handler
Result(kind, err, arg, tokens, hash, flag) ==
    [kind |-> kind, err |-> err, arg |-> arg, tokens |-> tokens, hash |-> hash,
     flag |-> flag]

NoResult == Result("None", "", "", NoTokens, <<>>, FALSE)

OkTokens(tokens) == Result("Ok", "", "", tokens, <<>>, FALSE)

Err(err, arg) == Result("Err", err, arg, NoTokens, <<>>, FALSE)

Panic(msg) == Result("Panic", "", msg, NoTokens, <<>>, FALSE)

\* Utc::now().checked_add_signed(Duration::hours(v as i64)).unwrap()
\*     .timestamp() as usize, with the clock reading c
Expiration(c, v, unit) ==
    LET d == DurationOf(AsI64(v), unit)
        r == checked_add_signed(UtcNow(c), d.secs)
    IN  IF ~d.ok THEN [ok |-> FALSE, msg |-> "Duration out of bounds", ts |-> MagZero]
        ELSE IF IsNone(r)
        THEN [ok |-> FALSE, msg |-> "called Option::unwrap() on a None value",
              ts |-> MagZero]
        ELSE [ok |-> TRUE, msg |-> "", ts |-> AsUsize(Unwrap(r))]

\* Utc::now().timestamp() as usize
IssuedAt(c) == AsUsize(UtcNow(c))

\* the match arm "auth" up to the first await: both tokens signed
AuthArm(user, jwt_secret, access_exp, refresh_exp, iat_access, iat_refresh) ==
    Tokens(Some(encode(HeaderDefault,
                       Claims(user.id, user.email, access_exp, iat_access),
                       jwt_secret)),
           Some(encode(HeaderDefault,
                       Claims(user.id, user.email, refresh_exp, iat_refresh),
                       jwt_secret)),
           None, None)

\* a variant of OtpArm: the token is also returned as access_token
OtpArm_AlsoAccess(user, jwt_secret, otp_exp, iat) ==
    OkTokens(Tokens(Some(encode(HeaderDefault,
                                Claims(user.id, user.email, otp_exp, iat),
                                jwt_secret)),
                    None,
                    Some(encode(HeaderDefault,
                                Claims(user.id, user.email, otp_exp, iat),
                                jwt_secret)),
                    None))

\* the match arm "one_time_password"
OtpArm(user, jwt_secret, otp_exp, iat) ==
    OkTokens(Tokens(None, None,
                    Some(encode(HeaderDefault,
                                Claims(user.id, user.email, otp_exp, iat),
                                jwt_secret)),
                    None))

\* the fall-through match arm
InvalidArm(token_type) == Err("InvalidTokenType", token_type)

\* a variant of FormatCookie: the two hashes in the other order
FormatCookie_Swapped(a, b) == [prefix |-> "rusty_chat", delimiter |-> "____", a |-> b, b |-> a]

\* format!("rusty_chat____{ }____{ }", a, b)
FormatCookie(a, b) == [prefix |-> "rusty_chat", delimiter |-> "____", a |-> a, b |-> b]

\* generate_tokens up to its first suspension point. ts are the successive
\* readings of the clock: ts[1..3] for the three expirations, ts[4] and ts[5]
\* for the issued-at stamps. `reads` is the number of readings taken; kind
\* "Await" is the call suspended in hashing_handler(user.email).
generate_tokens_sync(token_type, user, cfg, ts) ==
    IF IsNone(cfg.auth)
    THEN [res |-> Err("MissingAuth", ""), reads |-> 0, tokens |-> NoTokens]
    ELSE
      LET auth == Unwrap(cfg.auth)
          a == Expiration(ts[1], auth.jwt_access_expiration_time_in_hours, 3600)
          r == Expiration(ts[2], auth.jwt_refresh_expiration_time_in_hours, 3600)
          o == Expiration(ts[3], auth.jwt_one_time_password_lifetime_in_minutes, 60)
      IN  IF ~a.ok THEN [res |-> Panic(a.msg), reads |-> 1, tokens |-> NoTokens]
          ELSE IF ~r.ok THEN [res |-> Panic(r.msg), reads |-> 2, tokens |-> NoTokens]
          ELSE IF ~o.ok THEN [res |-> Panic(o.msg), reads |-> 3, tokens |-> NoTokens]
          ELSE IF token_type = "auth"
          THEN [res |-> NoResult, reads |-> 5,
                tokens |-> AuthArm(user, auth.jwt_secret, a.ts, r.ts,
                                   IssuedAt(ts[4]), IssuedAt(ts[5]))]
          ELSE IF token_type = "one_time_password"
          THEN [res |-> OtpArm(user, auth.jwt_secret, o.ts, IssuedAt(ts[4])),
                reads |-> 4, tokens |-> NoTokens]
          ELSE [res |-> InvalidArm(token_type), reads |-> 3, tokens |-> NoTokens]

\* a variant of AuthResult: the cookie is left out of the TokenSet
AuthResult_NoCookie(tokens, part_a, part_b) ==
    OkTokens(Tokens(tokens.access_token, tokens.refresh_token, None, None))

\* the end of the "auth" arm: the cookie joined to the two signed tokens
AuthResult(tokens, part_a, part_b) ==
    OkTokens(Tokens(tokens.access_token, tokens.refresh_token, None,
                    Some(FormatCookie(part_a, part_b))))

-----------------------------------------------------------------------------
(* verification_handler.rs *)

\* a variant of verification_handler: is_ok() taken of the parse, not of the
\* verification
verification_handler_ParseOnly(string_to_compare, hashed_string) ==
    LET parsed_hash == PasswordHashNew(hashed_string)
    IN  IF ~parsed_hash.ok THEN Err("PasswordHashError", "")
        ELSE Result("Ok", "", "", NoTokens, <<>>, TRUE)

verification_handler(string_to_compare, hashed_string) ==
    LET parsed_hash == PasswordHashNew(hashed_string)
    IN  IF ~parsed_hash.ok THEN Err("PasswordHashError", "")
        ELSE Result("Ok", "", "", NoTokens, <<>>,
                    verify_password(string_to_compare, parsed_hash))

-----------------------------------------------------------------------------
(* Inputs *)

\* the most seconds the clock advances while one call runs between two
\* suspension points
MaxDrift == 1

\* the concurrent requests
TaskIds == {1, 2}

TestSecret == <<"t", "e", "s", "t", "_", "s", "e", "c", "r", "e", "t">>

Users == {User(1, <<"a", "@", "x">>), User(2, <<"b", "@", "x">>)}

TokenTypes == {"auth", "one_time_password", "invalid"}

Passwords == {<<"p", "w">>, <<"w", "r", "o", "n", "g">>}

\* u64 expiry settings: ordinary ones, and ones at the limits of chrono
U64Max == <<51615, 37095, 74407, 18446, 0>>

I64Max == <<75807, 68547, 37203, 9223, 0>>

\* 2,300,000,000 hours: more than 262,000 years
BeyondCalendar == <<0, 23000, 0, 0, 0>>

AuthChoices ==
    {None,
     Some(AuthSection(TestSecret, Mag(1), Mag(24), Mag(5))),
     Some(AuthSection(TestSecret, BeyondCalendar, Mag(24), Mag(5))),
     Some(AuthSection(TestSecret, Mag(1), Mag(24), I64Max)),
     Some(AuthSection(TestSecret, U64Max, Mag(24), Mag(5)))}

ValidApp == [name |-> <<"T", "e", "s", "t", " ", "A", "p", "p">>,
             environment |-> Some("development")]

\* a ServerSection
Server(host, port, request_timeout_secs) ==
    [host |-> host, port |-> port, request_timeout_secs |-> request_timeout_secs]

\* the host 127.0.0.1
Loopback == <<"1", "2", "7", ".", "0", ".", "0", ".", "1">>

ValidServer == Some(Server(Loopback, 8080, 60))

\* the fields of a DatabaseSection that main and validate look at
Database(host, port, user, password, name) ==
    [host |-> host, port |-> port, user |-> user, password |-> password, name |-> name]

Localhost == <<"l", "o", "c", "a", "l", "h", "o", "s", "t">>

TestUser == <<"t", "e", "s", "t">>

TestPass == <<"p", "a", "s", "s">>

ValidDatabase == Some(Database(Localhost, 5432, Some(TestUser), Some(TestPass), <<"d", "b">>))

\* mock_config() of the generate_tokens tests: no server, no database
MockConfig ==
    AppConfig([name |-> <<"t", "e", "s", "t", "_", "a", "p", "p">>,
               environment |-> Some("test")],
              None, None,
              Some(AuthSection(TestSecret, Mag(1), Mag(24), Mag(5))))

Configs ==
    {AppConfig(ValidApp, ValidServer, ValidDatabase, auth) : auth \in AuthChoices}
    \cup {MockConfig}

\* stored strings that no hashing_handler call of this run produced
ForeignHash == hash_password(<<"p", "w">>, <<0, 0>>)

StoredStrings ==
    {<<Lit("")>>,
     <<Lit("not_a_hash")>>,
     ForeignHash \o <<Lit("extra")>>,
     <<Lit(""), Lit("argon2id"), Lit("v=19"), Lit(DefaultParams), Lit("!"),
       ForeignHash[6]>>,
     <<Lit(""), Lit("argon2id"), Lit("v=19"), Lit(DefaultParams), SaltField(<<0, 0>>)>>,
     <<Lit(""), Lit("argon2id")>>,
     <<Lit(""), Lit("scrypt"), SaltField(<<0, 0>>),
       OutputField("scrypt", "", "", <<0, 0>>, <<"p", "w">>)>>,
     ForeignHash}

\* nondecreasing clock readings of one synchronous section starting at c
Readings(c) ==
    {ts \in [1..5 -> c..(c + MaxDrift)] : \A i \in 1..4 : ts[i] <= ts[i + 1]}

-----------------------------------------------------------------------------
(* State *)

\* a request: the operation it calls, where it stands, its arguments, the
\* locals that live across its suspension points, and its outcome
Task(op, pc, token_type, user, plain, stored, tokens, part_a, res) ==
    [op |-> op, pc |-> pc, token_type |-> token_type, user |-> user,
     plain |-> plain, stored |-> stored, tokens |-> tokens, part_a |-> part_a,
     res |-> res]

NoUser == User(0, <<>>)

IdleTask == Task("none", "idle", "", NoUser, <<>>, <<>>, NoTokens, <<>>, NoResult)

\* the closure a task handed to spawn_blocking, and its JoinHandle
Job(state, password, out) == [state |-> state, password |-> password, out |-> out]

NoJob == Job("none", <<>>, <<>>)

\* one Argon2 computation: the task it serves, hash or verify, and the kind
\* of thread it ran on
Computation(t, fn, thread) == [task |-> t, fn |-> fn, thread |-> thread]

\* main: where the startup stands, and what it has acquired so far
Boot(pc, validation, db_connected, listener_bound) ==
    [pc |-> pc, validation |-> validation, db_connected |-> db_connected,
     listener_bound |-> listener_bound]

NotStarted == Boot("start", "", FALSE, FALSE)

\* a request to /register or /login: its number in the order of arrival, its
\* route and the fields of its body that the handlers look at
Request(seq, route, email, password, phone_number) ==
    [seq |-> seq, route |-> route, email |-> email, password |-> password,
     phone_number |-> phone_number]

NoRequest == Request(0, "", <<>>, <<>>, "")

\* an HTTP response: status, response_message and error of its body, the
\* user_profile of its body, the
\* tokens of its body, its Set-Cookie directives, and the request it answers
Response(status, response_message, error, user_profile, access_token, refresh_token, cookies, request) ==
    [status |-> status, response_message |-> response_message, error |-> error,
     user_profile |-> user_profile, access_token |-> access_token, refresh_token |-> refresh_token,
     cookies |-> cookies, request |-> request]

NoResponse == Response(0, <<>>, "", None, None, None, {}, NoRequest)

\* timeout_middleware around one request: where it stands, when it started,
\* its timeout_duration, whether the timer of the timeout has fired, what
\* became of the inner handler and the response it returned, the response
\* that the client gets and when
Middleware(state, started, timeout_duration, fired, inner, response, out, at) ==
    [state |-> state, started |-> started, timeout_duration |-> timeout_duration,
     fired |-> fired, inner |-> inner, response |-> response, out |-> out, at |-> at]

NoMiddleware == Middleware("idle", 0, 0, FALSE, "none", NoResponse, NoResponse, 0)

Init ==
    /\ config \in Configs
    /\ clock = 0
    /\ rng = [t \in TaskIds |-> 0]
    /\ task = [t \in TaskIds |-> IdleTask]
    /\ job = [t \in TaskIds |-> NoJob]
    /\ argon = {}
    /\ jar = [t \in TaskIds |-> {}]
    /\ boot = NotStarted
    /\ db = {}
    /\ resp = NoResponse
    /\ mw = [t \in TaskIds |-> NoMiddleware]

-----------------------------------------------------------------------------
(* hashing_handler.rs *)

\* requests are numbered in the order in which they start
MayStart(t) == task[t].pc = "idle" /\ \A u \in TaskIds : u < t => task[u].pc # "idle"

\* a variant of spawn_blocking: one slot for the closures of all requests
spawn_blocking_SharedSlot(t, password) ==
    job' = [u \in TaskIds |-> IF u = t \/ job[u].state = "queued"
                              THEN Job("queued", password, <<>>) ELSE job[u]]

\* tokio::task::spawn_blocking(move || ...): the closure is queued on the
\* blocking pool and the caller awaits its JoinHandle
spawn_blocking(t, password) == job' = [job EXCEPT ![t] = Job("queued", password, <<>>)]

\* a variant of SaltStringGenerate: one fixed salt for every call
SaltStringGenerate_Fixed(t, k) == <<0, 0>>

\* SaltString::generate(&mut OsRng): the salt of the next draw for request t,
\* which has drawn k salts so far
SaltStringGenerate(t, k) == <<t, k + 1>>

\* the body of the closure: Argon2::default().hash_password with the salt,
\* then the PHC string
hashing_closure(password, salt) == hash_password(password, salt)

\* the output of a closure when it completes: kept for the JoinHandle, or
\* dropped at once when the future that held the JoinHandle was dropped
Completed(t, j) ==
    IF task[t].pc = "cancelled" THEN Job("discarded", j.password, <<>>) ELSE j

\* the closure of hashing_handler runs on a blocking-pool thread
BlockingWorker(t) ==
    /\ job[t].state = "queued"
    /\ rng' = [rng EXCEPT ![t] = rng[t] + 1]
    /\ job' = [job EXCEPT ![t] =
                  Completed(t, Job("finished", job[t].password,
                                   hashing_closure(job[t].password,
                                                   SaltStringGenerate(t, rng[t]))))]
    /\ argon' = argon \cup {Computation(t, "hash", "blocking")}
    /\ UNCHANGED <<config, clock, task>>
    /\ UNCHANGED serverVars

\* the closure does not return a hash: it panics on its worker thread and the
\* JoinHandle resolves to a JoinError, which map_err turns into Error::Password
BlockingWorkerFails(t) ==
    /\ job[t].state = "queued"
    /\ job' = [job EXCEPT ![t] = Completed(t, Job("failed", job[t].password, <<>>))]
    /\ UNCHANGED <<config, clock, rng, task, argon>>
    /\ UNCHANGED serverVars

\* what .await on the JoinHandle of request t gives hashing_handler to return
Joined(j) ==
    IF j.state = "finished" THEN Result("Ok", "", "", NoTokens, j.out, FALSE)
    ELSE Err("PasswordHashError", "Password")

\* a request that calls hashing_handler(password)
CallHashingHandler(t, password) ==
    /\ MayStart(t)
    /\ task' = [task EXCEPT ![t] = Task("hashing_handler", "await_hash", "", NoUser,
                                        password, <<>>, NoTokens, <<>>, NoResult)]
    /\ spawn_blocking(t, password)
    /\ UNCHANGED <<config, clock, rng, argon>>
    /\ UNCHANGED serverVars

\* .await on the JoinHandle resolves: hashing_handler returns Ok(hash), or the
\* error
ReturnHashingHandler(t) ==
    /\ task[t].pc = "await_hash"
    /\ job[t].state \in {"finished", "failed"}
    /\ task' = [task EXCEPT ![t].pc = "done", ![t].res = Joined(job[t])]
    /\ job' = [job EXCEPT ![t] = NoJob]
    /\ UNCHANGED <<config, clock, rng, argon>>
    /\ UNCHANGED serverVars

-----------------------------------------------------------------------------
(* verification_handler.rs *)

\* the strings a caller can hold as a stored hash: the fixed ones and every
\* hash a finished hashing_handler call returned
Stored == StoredStrings \cup
          {task[u].res.hash : u \in {v \in TaskIds : task[v].op = "hashing_handler"
                                                     /\ task[v].pc = "done"}}

\* a request that calls verification_handler: it has no suspension point, the
\* parse and the Argon2 verification run on the thread that polls the task
CallVerificationHandler(t, string_to_compare, hashed_string) ==
    /\ MayStart(t)
    /\ task' = [task EXCEPT ![t] =
                  Task("verification_handler", "done", "", NoUser, string_to_compare,
                       hashed_string, NoTokens, <<>>,
                       verification_handler(string_to_compare, hashed_string))]
    /\ argon' = IF PasswordHashNew(hashed_string).ok
                   /\ verify_computes(PasswordHashNew(hashed_string))
                THEN argon \cup {Computation(t, "verify", "runtime")}
                ELSE argon
    /\ UNCHANGED <<config, clock, rng, job>>
    /\ UNCHANGED serverVars

-----------------------------------------------------------------------------
(* generate_tokens.rs: the call as a task *)

\* the call up to its first suspension point, or to its return
CallGenerateTokens(t, token_type, user, ts) ==
    /\ MayStart(t)
    /\ LET g == generate_tokens_sync(token_type, user, config, ts)
       IN  /\ clock' = IF g.reads = 0 THEN clock ELSE ts[g.reads]
           /\ IF g.res.kind = "None"
              THEN /\ task' = [task EXCEPT ![t] =
                                 Task("generate_tokens", "await_part_a", token_type,
                                      user, <<>>, <<>>, g.tokens, <<>>, NoResult)]
                   /\ spawn_blocking(t, user.email)
              ELSE /\ task' = [task EXCEPT ![t] =
                                 Task("generate_tokens", "done", token_type, user,
                                      <<>>, <<>>, NoTokens, <<>>, g.res)]
                   /\ UNCHANGED job
    /\ UNCHANGED <<config, rng, argon>>
    /\ UNCHANGED serverVars

\* the ? after hashing_handler(..).await inside generate_tokens: the error
\* becomes JwtError::Hashing and the call returns it, dropping its locals
HashingFailed(t) ==
    [task EXCEPT ![t].pc = "done", ![t].tokens = NoTokens, ![t].part_a = <<>>,
                 ![t].res = Err("Hashing", Joined(job[t]).arg)]

\* hashing_handler(user.email).await resolves; hashing_handler(jwt_secret) starts
ResumePartA(t) ==
    /\ task[t].pc = "await_part_a"
    /\ job[t].state \in {"finished", "failed"}
    /\ IF Joined(job[t]).kind = "Ok"
       THEN /\ task' = [task EXCEPT ![t].pc = "await_part_b", ![t].part_a = job[t].out]
            /\ spawn_blocking(t, Unwrap(config.auth).jwt_secret)
       ELSE /\ task' = HashingFailed(t)
            /\ job' = [job EXCEPT ![t] = NoJob]
    /\ UNCHANGED <<config, clock, rng, argon>>
    /\ UNCHANGED serverVars

\* hashing_handler(jwt_secret).await resolves; the cookie is formatted and the
\* call returns Ok(Tokens)
ResumePartB(t) ==
    /\ task[t].pc = "await_part_b"
    /\ job[t].state \in {"finished", "failed"}
    /\ task' = IF Joined(job[t]).kind = "Ok"
               THEN [task EXCEPT ![t].pc = "done",
                                 ![t].res = AuthResult(task[t].tokens, task[t].part_a,
                                                       job[t].out)]
               ELSE HashingFailed(t)
    /\ job' = [job EXCEPT ![t] = NoJob]
    /\ UNCHANGED <<config, clock, rng, argon>>
    /\ UNCHANGED serverVars

-----------------------------------------------------------------------------
(* Cancellation: the future of a request is dropped at a suspension point,   *)
(* by hyper when the client disconnects or by tokio::time::timeout in        *)
(* timeout_middleware when the request has run for request_timeout_secs      *)

\* the points at which a request is suspended in hashing_handler
Suspended == {"await_hash", "await_part_a", "await_part_b"}

\* a variant of DropJoinHandle: dropping the handle aborts the closure
DropJoinHandle_Aborts(j) == NoJob

\* what dropping a JoinHandle does to its closure: a closure still queued or
\* running is left alone, an output already there is dropped
DropJoinHandle(j) ==
    IF j.state \in {"finished", "failed"} THEN Job("discarded", j.password, <<>>) ELSE j

\* the future of request t is dropped: its locals (signed tokens, part a, the
\* JoinHandle) are dropped with it and it never returns
Cancel(t) ==
    /\ task[t].pc \in Suspended
    /\ task' = [task EXCEPT ![t].pc = "cancelled", ![t].tokens = NoTokens,
                            ![t].part_a = <<>>]
    /\ job' = [job EXCEPT ![t] = DropJoinHandle(job[t])]
    /\ UNCHANGED <<config, clock, rng, argon>>
    /\ UNCHANGED serverVars

-----------------------------------------------------------------------------
(* cookie_deploy_handler.rs *)

\* time::Duration::hours(h): h * 3600 seconds in an i64 (time 0.3). ok = FALSE
\* is the panic "overflow constructing time::Duration".
TimeDurationHours(h) ==
    LET secs == MagMul(h.mag, 3600)
    IN  IF MagLt(secs, Two63) \/ (h.neg /\ secs = Two63)
        THEN [ok |-> TRUE, secs |-> SInt(h.neg, secs)]
        ELSE [ok |-> FALSE, secs |-> SInt(FALSE, MagZero)]

\* a cookie::Cookie with the attributes that deploy_auth_cookie sets
Cookie(name, value, path, http_only, secure, same_site, max_age) ==
    [name |-> name, value |-> value, path |-> path, http_only |-> http_only,
     secure |-> secure, same_site |-> same_site, max_age |-> max_age]

\* Cookies::add: the jar holds one cookie per name, the last one added
CookiesAdd(cookies, cookie) == {c \in cookies : c.name # cookie.name} \cup {cookie}

\* a variant of is_dev: an unset environment counts as "development"
is_dev_UnsetIsDevelopment(cfg) ==
    (IF IsSome(cfg.app.environment) THEN Unwrap(cfg.app.environment)
     ELSE "development") = "development"

\* config.app.environment.as_deref().unwrap_or("production") == "development"
is_dev(cfg) ==
    (IF IsSome(cfg.app.environment) THEN Unwrap(cfg.app.environment)
     ELSE "production") = "development"

\* the function returns (): Ok with nothing in it
Unit == Result("Ok", "", "", NoTokens, <<>>, FALSE)

\* deploy_auth_cookie(cookies, cookie_value, config): its outcome and the jar
\* it leaves
deploy_auth_cookie(cookies, cookie_value, cfg) ==
    IF IsNone(cfg.auth)
    THEN [res |-> Panic("AUTH CONFIGURATION IS MISSING!"), cookies |-> cookies]
    ELSE LET auth == Unwrap(cfg.auth)
             max_age == TimeDurationHours(
                            AsI64(auth.jwt_refresh_expiration_time_in_hours))
         IN  IF ~max_age.ok
             THEN [res |-> Panic("overflow constructing time::Duration"),
                   cookies |-> cookies]
             ELSE [res |-> Unit,
                   cookies |-> CookiesAdd(cookies,
                                   Cookie("rusty_chat_auth_cookie", cookie_value, "/",
                                          TRUE, ~is_dev(cfg), "Lax", max_age.secs))]

\* a request whose handler calls deploy_auth_cookie on the cookies of its
\* response; the function has no suspension point
CallDeployAuthCookie(t, cookie_value) ==
    /\ MayStart(t)
    /\ LET d == deploy_auth_cookie(jar[t], cookie_value, config)
       IN  /\ task' = [task EXCEPT ![t] =
                         Task("deploy_auth_cookie", "done", "", NoUser, cookie_value,
                              <<>>, NoTokens, <<>>, d.res)]
           /\ jar' = [jar EXCEPT ![t] = d.cookies]
    /\ UNCHANGED <<config, clock, rng, job, argon, boot, db, resp, mw>>

\* the environments of the configuration file, and none
Environments ==
    {None, Some("development"), Some("production"), Some("test"),
     Some("Development"), Some("")}

\* refresh expiries: ordinary ones, and ones at the limits of i64
RefreshChoices == {Mag(24), Mag(0), Mag(720), BeyondCalendar, I64Max, U64Max}

CookieConfigs ==
    {AppConfig([name |-> ValidApp.name, environment |-> e], ValidServer, ValidDatabase, a) :
        e \in Environments,
        a \in {None} \cup {Some(AuthSection(TestSecret, Mag(1), r, Mag(5))) :
                               r \in RefreshChoices}}

CookieValues == {<<"a", "b", "c">>, <<>>}

InitCookie ==
    /\ config \in CookieConfigs
    /\ clock = 0
    /\ rng = [t \in TaskIds |-> 0]
    /\ task = [t \in TaskIds |-> IdleTask]
    /\ job = [t \in TaskIds |-> NoJob]
    /\ argon = {}
    /\ jar = [t \in TaskIds |-> {}]
    /\ boot = NotStarted
    /\ db = {}
    /\ resp = NoResponse
    /\ mw = [t \in TaskIds |-> NoMiddleware]

NextCookie == \E t \in TaskIds, v \in CookieValues : CallDeployAuthCookie(t, v)

SpecCookie == InitCookie /\ [][NextCookie]_vars

-----------------------------------------------------------------------------
(* main.rs: the startup of the server *)

DecDigits == <<"0", "1", "2", "3", "4", "5", "6", "7", "8", "9">>

IsDigit(c) == \E i \in DOMAIN DecDigits : DecDigits[i] = c

HexDigits ==
    {DecDigits[i] : i \in DOMAIN DecDigits}
    \cup {"a", "b", "c", "d", "e", "f", "A", "B", "C", "D", "E", "F"}

\* Display of an unsigned integer: decimal, no leading zero
RECURSIVE ToDecimal(_)
ToDecimal(n) ==
    IF n < 10 THEN <<DecDigits[n + 1]>>
    ELSE ToDecimal(n \div 10) \o <<DecDigits[(n % 10) + 1]>>

\* the digits of s after its leading zeros
RECURSIVE StripZeros(_)
StripZeros(s) == IF s # <<>> /\ s[1] = "0" THEN StripZeros(Tail(s)) ELSE s

\* x <= y for two decimal numbers of the same length
RECURSIVE DecLe(_, _)
DecLe(x, y) ==
    IF x = <<>> THEN TRUE
    ELSE IF x[1] = y[1] THEN DecLe(Tail(x), Tail(y))
    ELSE (CHOOSE i \in DOMAIN DecDigits : DecDigits[i] = x[1])
           < (CHOOSE i \in DOMAIN DecDigits : DecDigits[i] = y[1])

\* Parser::read_number(10, None, true) into an unsigned type whose maximum
\* is written max: one digit or more, leading zeros allowed, the value must
\* fit (checked_mul, checked_add)
ReadsDecimal(s, max) ==
    /\ s # <<>>
    /\ \A i \in DOMAIN s : IsDigit(s[i])
    /\ LET z == StripZeros(s)
       IN  Len(z) < Len(max) \/ (Len(z) = Len(max) /\ DecLe(z, max))

\* the pieces of s between the occurrences of sep
RECURSIVE Split(_, _)
Split(s, sep) ==
    IF \A i \in DOMAIN s : s[i] # sep THEN <<s>>
    ELSE LET k == CHOOSE i \in DOMAIN s : s[i] = sep /\ \A j \in 1..(i - 1) : s[j] # sep
         IN  <<SubSeq(s, 1, k - 1)>> \o Split(SubSeq(s, k + 1, Len(s)), sep)

\* Parser::read_ipv4_addr over the whole of s: four numbers of one to three
\* decimal digits, no leading zero, at most 255, separated by "."
ReadsIpv4(s) ==
    LET p == Split(s, ".")
    IN  /\ Len(p) = 4
        /\ \A i \in 1..4 :
              /\ Len(p[i]) \in 1..3
              /\ Len(p[i]) > 1 => p[i][1] # "0"
              /\ ReadsDecimal(p[i], <<"2", "5", "5">>)

\* Parser::read_number(16, Some(4), true) over the whole of g
IsHexGroup(g) == Len(g) \in 1..4 /\ \A i \in DOMAIN g : g[i] \in HexDigits

\* read_groups over the whole of s: groups of hexadecimal digits separated
\* by ":", the last of which may be an IPv4 address that fills two groups;
\* n is the number of groups filled
ReadGroups(s) ==
    IF s = <<>> THEN [ok |-> TRUE, n |-> 0, ipv4 |-> FALSE]
    ELSE LET g == Split(s, ":")
             last == g[Len(g)]
         IN  [ok |-> /\ \A i \in 1..(Len(g) - 1) : IsHexGroup(g[i])
                     /\ IsHexGroup(last) \/ ReadsIpv4(last),
              n |-> IF ReadsIpv4(last) THEN Len(g) + 1 ELSE Len(g),
              ipv4 |-> ReadsIpv4(last)]

\* Parser::read_ipv6_addr over the whole of s: eight groups, or a head and a
\* tail of at most seven groups together around one "::"; an IPv4 address is
\* not allowed before the "::"
ReadsIpv6(s) ==
    LET gaps == {i \in 1..(Len(s) - 1) : s[i] = ":" /\ s[i + 1] = ":"}
    IN  IF gaps = {} THEN ReadGroups(s).ok /\ ReadGroups(s).n = 8
        ELSE LET k == CHOOSE i \in gaps : \A j \in gaps : i <= j
                 head == ReadGroups(SubSeq(s, 1, k - 1))
                 tail == ReadGroups(SubSeq(s, k + 2, Len(s)))
             IN  /\ head.ok /\ ~head.ipv4 /\ head.n <= 7
                 /\ tail.ok /\ tail.n <= 7 - head.n

\* the address part of Parser::read_socket_addr_v6 over the whole of s:
\* "[", an IPv6 address, an optional "%" and scope id (u32), "]"
ReadsBracketedIpv6(s) ==
    /\ Len(s) >= 2 /\ s[1] = "[" /\ s[Len(s)] = "]"
    /\ LET body == SubSeq(s, 2, Len(s) - 1)
           parts == Split(body, "%")
       IN  \/ Len(parts) = 1 /\ ReadsIpv6(body)
           \/ /\ Len(parts) = 2 /\ ReadsIpv6(parts[1])
              /\ ReadsDecimal(parts[2], <<"4", "2", "9", "4", "9", "6", "7", "2", "9", "5">>)

\* <SocketAddr as FromStr>::from_str(s) is Ok: an IPv4 address or a bracketed
\* IPv6 address, ":", and a port (u16), with nothing left over
SocketAddrFromStr(s) ==
    \E k \in DOMAIN s :
        /\ s[k] = ":"
        /\ ReadsDecimal(SubSeq(s, k + 1, Len(s)), <<"6", "5", "5", "3", "5">>)
        /\ ReadsIpv4(SubSeq(s, 1, k - 1)) \/ ReadsBracketedIpv6(SubSeq(s, 1, k - 1))

\* format!("{}:{}", host, port) with the host and the port of the server
\* section, 127.0.0.1 and 8000 when there is none
server_address(cfg) ==
    LET host == IF IsSome(cfg.server) THEN Unwrap(cfg.server).host ELSE Loopback
        port == IF IsSome(cfg.server) THEN Unwrap(cfg.server).port ELSE 8000
    IN  host \o <<":">> \o ToDecimal(port)

\* format!("postgres://{}:{}@{}:{}/{}", user, password, host, port, name)
database_url(d) ==
    <<"p", "o", "s", "t", "g", "r", "e", "s", ":", "/", "/">>
    \o Unwrap(d.user) \o <<":">> \o Unwrap(d.password) \o <<"@">>
    \o d.host \o <<":">> \o ToDecimal(d.port) \o <<"/">> \o d.name

\* the characters that UTF-8 writes in two bytes and in three
TwoByteChars == {"U+0085", "U+00A0", "U+00E9"}

ThreeByteChars == Whitespace \ ({"\t", "\n", "U+000B", "\f", "\r", " "} \cup TwoByteChars)

\* the length of s in bytes
RECURSIVE ByteLen(_)
ByteLen(s) ==
    IF s = <<>> THEN 0
    ELSE (IF s[1] \in TwoByteChars THEN 2 ELSE IF s[1] \in ThreeByteChars THEN 3 ELSE 1)
         + ByteLen(Tail(s))

\* &s[0..n] does not panic: n is not beyond the end of s and is a character
\* boundary
SliceTo(s, n) == \E k \in 0..Len(s) : ByteLen(SubSeq(s, 1, k)) = n

\* a variant of AfterValidate: the result of validate is not looked at
AfterValidate_Continues(result) == "validated"

\* if let Err(e) = config.validate() { error!(..); return; }
AfterValidate(result) == IF result = "Ok" THEN "validated" ELSE "exit"

\* let app_config = load_config(): Ok(config) with the configuration that the
\* files and the environment hold, or Err when they cannot be read
MainLoadConfig(outcome) ==
    /\ boot.pc = "start"
    /\ boot' = IF outcome = "Ok" THEN [boot EXCEPT !.pc = "loaded"]
               ELSE [boot EXCEPT !.pc = "exit", !.validation = "LoadError"]
    /\ UNCHANGED <<config, clock, rng, task, job, argon, jar, db, resp, mw>>

\* the Ok arm of the match on app_config: validate, and return on its error
MainValidate ==
    /\ boot.pc = "loaded"
    /\ boot' = [boot EXCEPT !.pc = AfterValidate(validate(config)),
                            !.validation = validate(config)]
    /\ UNCHANGED <<config, clock, rng, task, job, argon, jar, db, resp, mw>>

\* the three matches on the database section, its user and its password
MainDatabaseConfig ==
    /\ boot.pc = "validated"
    /\ boot' = [boot EXCEPT !.pc =
                  IF IsNone(config.database) THEN "exit"
                  ELSE IF IsNone(Unwrap(config.database).user) THEN "exit"
                  ELSE IF IsNone(Unwrap(config.database).password) THEN "exit"
                  ELSE "connecting"]
    /\ UNCHANGED <<config, clock, rng, task, job, argon, jar, db, resp, mw>>

\* connect_pg(..).await: the pool, or the panic of connect_pg
MainConnectPg(outcome) ==
    /\ boot.pc = "connecting"
    /\ boot' = IF outcome = "Ok"
               THEN [boot EXCEPT !.pc = "connected", !.db_connected = TRUE]
               ELSE [boot EXCEPT !.pc = "panicked"]
    /\ UNCHANGED <<config, clock, rng, task, job, argon, jar, db, resp, mw>>

\* from the return of connect_pg to TcpListener::bind(addr).await: the
\* address is parsed (panic "Invalid server address"), the first 25 bytes of
\* database_url are sliced (panic when there are fewer or when byte 25 is
\* inside a character), then bind gives the listener, or main returns on its
\* error
MainBind(outcome) ==
    /\ boot.pc = "connected"
    /\ boot' = IF ~SocketAddrFromStr(server_address(config)) THEN [boot EXCEPT !.pc = "panicked"]
               ELSE IF ~SliceTo(database_url(Unwrap(config.database)), 25)
               THEN [boot EXCEPT !.pc = "panicked"]
               ELSE IF outcome = "Ok"
               THEN [boot EXCEPT !.pc = "serving", !.listener_bound = TRUE]
               ELSE [boot EXCEPT !.pc = "exit"]
    /\ UNCHANGED <<config, clock, rng, task, job, argon, jar, db, resp, mw>>

\* axum::serve(listener, app).await ends: main returns
MainShutdown ==
    /\ boot.pc = "serving"
    /\ boot' = [boot EXCEPT !.pc = "exit"]
    /\ UNCHANGED <<config, clock, rng, task, job, argon, jar, db, resp, mw>>

\* the configurations that the files can hold: every section present or
\* absent, every checked field good or bad, hosts that are and are not
\* addresses, database URLs long and short
MainConfigs ==
    {AppConfig([name |-> n, environment |-> Some("development")], sv, d, a) :
        n \in {ValidApp.name, <<>>, <<"\r", "\n">>},
        sv \in {None, ValidServer,
                Some(Server(Loopback, 0, 60)),
                Some(Server(Localhost, 8080, 60)),
                Some(Server(<<"[", ":", ":", "1", "]">>, 8080, 60)),
                Some(Server(<<":", ":", "1">>, 8080, 60))},
        d \in {None, ValidDatabase,
               Some(Database(Localhost, 5432, Some(TestUser), Some(TestPass), <<" ">>)),
               Some(Database(Localhost, 5432, None, Some(TestPass), <<"d", "b">>)),
               Some(Database(Localhost, 5432, Some(TestUser), None, <<"d", "b">>)),
               Some(Database(Localhost, 5432, None, None, <<"d", "b">>)),
               Some(Database(<<"h">>, 1, Some(<<"u">>), Some(<<"p">>), <<"d">>)),
               Some(Database(<<"a", "a", "a", "U+00E9">>, 5432, Some(TestUser),
                             Some(TestPass), <<"d", "b">>))},
        a \in {None, Some(AuthSection(TestSecret, Mag(1), Mag(24), Mag(5))),
               Some(AuthSection(<<>>, Mag(1), Mag(24), Mag(5))),
               Some(AuthSection(<<" ", "\t">>, Mag(1), Mag(24), Mag(5)))}}

Outcomes == {"Ok", "Err"}

InitMain ==
    /\ config \in MainConfigs
    /\ clock = 0
    /\ rng = [t \in TaskIds |-> 0]
    /\ task = [t \in TaskIds |-> IdleTask]
    /\ job = [t \in TaskIds |-> NoJob]
    /\ argon = {}
    /\ jar = [t \in TaskIds |-> {}]
    /\ boot = NotStarted
    /\ db = {}
    /\ resp = NoResponse
    /\ mw = [t \in TaskIds |-> NoMiddleware]

NextMain ==
    \/ \E o \in Outcomes : MainLoadConfig(o)
    \/ MainValidate
    \/ MainDatabaseConfig
    \/ \E o \in Outcomes : MainConnectPg(o)
    \/ \E o \in Outcomes : MainBind(o)
    \/ MainShutdown

SpecMain == InitMain /\ [][NextMain]_vars

-----------------------------------------------------------------------------
(* core/controllers: register_user, login_user and logout_user, the handlers *)
(* that core/router.rs mounts on /register, /login and /logout. Requests are *)
(* taken one at a time, each handled from its arrival to its response.       *)

\* the user_profile of a response body: the id and the email of the user
UserProfile(id, email) == [id |-> id, email |-> email]

\* format!("User with email '{}' registered successfully!", email). A
\* response_message is the sequence of the pieces of its text, literals and
\* characters.
Registered(email) == <<"User with email '">> \o email \o <<"' registered successfully!">>

\* a row of the users table
Row(id, email, phone_number, password) ==
    [id |-> id, email |-> email, phone_number |-> phone_number, password |-> password]

\* a variant of register_user: the phone number is not looked up
register_user_NoPhoneCheck(req, rows) ==
    IF \E r \in rows : r.email = req.email
    THEN [resp |-> Response(403, <<>>, "Email already exists", None, None, None, {}, req),
          rows |-> rows]
    ELSE LET row == Row(Cardinality(rows) + 1, req.email, req.phone_number,
                        hashing_closure(req.password, SaltStringGenerate(req.seq, 0)))
         IN  [resp |-> Response(201, Registered(req.email), "",
                                Some(UserProfile(row.id, row.email)), None, None, {}, req),
              rows |-> rows \cup {row}]

\* register_user: 403 when the email or the phone number is taken, otherwise
\* the password is hashed, the row inserted and the answer is 201
register_user(req, rows) ==
    IF \E r \in rows : r.email = req.email
    THEN [resp |-> Response(403, <<>>, "Email already exists", None, None, None, {}, req),
          rows |-> rows]
    ELSE IF \E r \in rows : r.phone_number = req.phone_number
    THEN [resp |-> Response(403, <<>>, "Phone number already exists", None, None, None, {}, req),
          rows |-> rows]
    ELSE LET row == Row(Cardinality(rows) + 1, req.email, req.phone_number,
                        hashing_closure(req.password, SaltStringGenerate(req.seq, 0)))
         IN  [resp |-> Response(201, Registered(req.email), "",
                                Some(UserProfile(row.id, row.email)), None, None, {}, req),
              rows |-> rows \cup {row}]

\* a variant of PasswordAccepted: any verification that does not fail
PasswordAccepted_AnyOk(v) == v.kind = "Ok"

\* what login_user takes from verification_handler: only Ok(true) lets the
\* user in
PasswordAccepted(v) == v.kind = "Ok" /\ v.flag

Unauthorized(req) == Response(401, <<>>, "Invalid email or password", None, None, None, {}, req)

\* login_user: 401 when the email is unknown or the password does not verify
\* against the stored hash; otherwise generate_tokens("auth", ..), the auth
\* cookie deployed on the response, and 200 with the two tokens. ts are the
\* clock readings of generate_tokens.
login_user(req, rows, cfg, ts) ==
    LET found == {r \in rows : r.email = req.email}
    IN  IF found = {} THEN [resp |-> Unauthorized(req), reads |-> 0]
        ELSE
          LET row == CHOOSE r \in found : TRUE
          IN  IF ~PasswordAccepted(verification_handler(req.password, row.password))
              THEN [resp |-> Unauthorized(req), reads |-> 0]
              ELSE
                LET g == generate_tokens_sync("auth", User(row.id, row.email), cfg, ts)
                    a == hashing_closure(row.email, SaltStringGenerate(req.seq, 0))
                    b == hashing_closure(Unwrap(cfg.auth).jwt_secret,
                                         SaltStringGenerate(req.seq, 1))
                    r == AuthResult(g.tokens, a, b)
                    d == deploy_auth_cookie({}, Unwrap(r.tokens.auth_cookie), cfg)
                IN  IF g.res.kind = "None" /\ d.res.kind = "Ok"
                    THEN [resp |-> Response(200, <<"Login successful">>, "", None,
                                            r.tokens.access_token, r.tokens.refresh_token,
                                            d.cookies, req),
                          reads |-> g.reads]
                    ELSE [resp |-> Response(500, <<>>, "Internal server error", None, None,
                                            None, {}, req),
                          reads |-> g.reads]

MaxRequests == 3

\* logout_user: the user of the user_email query parameter is fetched with
\* fetch_one; 500 when there is none, otherwise the auth cookie is cleared
\* (Max-Age 0) and the answer is 200
logout_user(req, rows, cfg) ==
    IF ~\E r \in rows : r.email = req.email
    THEN Response(500, <<>>, "Internal server error", None, None, None, {}, req)
    ELSE Response(200, <<"Logout successful">>, "", None, None, None,
                  {Cookie("rusty_chat_auth_cookie", <<>>, "/", TRUE, ~is_dev(cfg), "Lax",
                          SInt(FALSE, MagZero))}, req)

Emails == {u.email : u \in Users}

PhoneNumbers == {"111", "222"}

\* POST /register
Register(email, password, phone_number) ==
    /\ resp.request.seq < MaxRequests
    /\ LET req == Request(resp.request.seq + 1, "register", email, password, phone_number)
           out == register_user(req, db)
       IN  resp' = out.resp /\ db' = out.rows
    /\ UNCHANGED <<config, clock, rng, task, job, argon, jar, boot, mw>>

\* POST /login
Login(email, password, ts) ==
    /\ resp.request.seq < MaxRequests
    /\ LET req == Request(resp.request.seq + 1, "login", email, password, "")
           out == login_user(req, db, config, ts)
       IN  /\ resp' = out.resp
           /\ clock' = IF out.reads = 0 THEN clock ELSE ts[out.reads]
    /\ UNCHANGED <<config, rng, task, job, argon, jar, boot, db, mw>>

\* POST /logout?user_email=..
Logout(email) ==
    /\ resp.request.seq < MaxRequests
    /\ resp' = logout_user(Request(resp.request.seq + 1, "logout", email, <<>>, ""),
                           db, config)
    /\ UNCHANGED <<config, clock, rng, task, job, argon, jar, boot, db, mw>>

\* a server that main has brought up with a configuration that validate
\* accepts, and an empty users table
InitAuth ==
    /\ config = AppConfig(ValidApp, ValidServer, ValidDatabase,
                          Some(AuthSection(TestSecret, Mag(1), Mag(24), Mag(5))))
    /\ clock = 0
    /\ rng = [t \in TaskIds |-> 0]
    /\ task = [t \in TaskIds |-> IdleTask]
    /\ job = [t \in TaskIds |-> NoJob]
    /\ argon = {}
    /\ jar = [t \in TaskIds |-> {}]
    /\ boot = Boot("serving", "Ok", TRUE, TRUE)
    /\ db = {}
    /\ resp = NoResponse
    /\ mw = [t \in TaskIds |-> NoMiddleware]

NextAuth ==
    \/ \E e \in Emails, p \in Passwords, n \in PhoneNumbers : Register(e, p, n)
    \/ \E e \in Emails, p \in Passwords, ts \in Readings(clock) : Login(e, p, ts)
    \/ \E e \in Emails : Logout(e)

SpecAuth == InitAuth /\ [][NextAuth]_vars

-----------------------------------------------------------------------------
(* request_timeout_middleware.rs: timeout_middleware, the outermost layer of *)
(* create_app. The clock counts seconds. tokio::time::timeout makes a future *)
(* that, each time the task is polled, polls the inner future first and the  *)
(* timer only when the inner future is pending. The timer is fired by the    *)
(* time driver of the runtime, which runs when a worker is free to run it    *)
(* and not before the deadline; firing wakes the task. A task that has been  *)
(* woken is polled when a worker is free. A handler that computes does not   *)
(* yield: the worker that polls it does nothing else until the poll returns. *)

\* Duration::from_secs(server.request_timeout_secs, or 60 with no server
\* section)
timeout_duration(cfg) ==
    IF IsSome(cfg.server) THEN Unwrap(cfg.server).request_timeout_secs ELSE 60

\* the Err arm: 408 with the fixed TimeoutErrorResponse body
TimeoutErrorResponse ==
    Response(408, <<"Request exceeded the maximum allowed time of 60 seconds">>,
             "Request Timeout", None, None, None, {}, NoRequest)

\* the instants of time that are looked at
TimeInstants == {0, 1, 2, 3, 60, 61}

\* the responses that the inner handler can return
HandlerResponses ==
    {Response(200, <<"Login successful">>, "", None, None, None, {}, NoRequest),
     Response(401, <<>>, "Invalid email or password", None, None, None, {}, NoRequest)}

\* a request enters timeout_middleware: timeout(timeout_duration, next.run(req))
\* sets the deadline; the task is ready to be polled
MiddlewareStart(t) ==
    /\ mw[t].state = "idle"
    /\ \A u \in TaskIds : u < t => mw[u].state # "idle"
    /\ clock + timeout_duration(config) \in TimeInstants
    /\ mw' = [mw EXCEPT ![t] = Middleware("woken", clock, timeout_duration(config), FALSE,
                                          "pending", NoResponse, NoResponse, 0)]
    /\ UNCHANGED <<config, clock, rng, task, job, argon, jar, boot, db, resp>>

\* what the handler awaits arrives and wakes the task
HandlerWakes(t) ==
    /\ mw[t].state = "waiting"
    /\ mw' = [mw EXCEPT ![t].state = "woken"]
    /\ UNCHANGED <<config, clock, rng, task, job, argon, jar, boot, db, resp>>

\* the time driver fires the timer of the timeout, at the deadline or later,
\* and wakes the task if it is waiting
TimerFires(t) ==
    /\ mw[t].state \in {"woken", "polling", "waiting"}
    /\ ~mw[t].fired
    /\ clock >= mw[t].started + mw[t].timeout_duration
    /\ mw' = [mw EXCEPT ![t].fired = TRUE,
                        ![t].state = IF @ = "waiting" THEN "woken" ELSE @]
    /\ UNCHANGED <<config, clock, rng, task, job, argon, jar, boot, db, resp>>

\* a worker polls the task: Timeout::poll polls the handler, which runs on
\* the worker thread without yielding (as the Argon2 computation of
\* verification_handler does)
HandlerPolled(t) ==
    /\ mw[t].state = "woken"
    /\ mw' = [mw EXCEPT ![t].state = "polling", ![t].inner = "computing"]
    /\ UNCHANGED <<config, clock, rng, task, job, argon, jar, boot, db, resp>>

\* the poll of the handler returns Ready(r): the Ok arm returns the response,
\* the timer is not looked at
HandlerCompletes(t, r) ==
    /\ mw[t].state = "polling"
    /\ mw' = [mw EXCEPT ![t].state = "done", ![t].inner = "completed",
                        ![t].response = r, ![t].out = r, ![t].at = clock]
    /\ UNCHANGED <<config, clock, rng, task, job, argon, jar, boot, db, resp>>

\* the poll of the handler returns Pending: Timeout::poll polls the timer; if
\* it has fired the handler future is dropped and the Err arm returns 408, if
\* not the task waits for the handler or the timer to wake it
HandlerYields(t) ==
    /\ mw[t].state = "polling"
    /\ mw' = IF mw[t].fired
             THEN [mw EXCEPT ![t].state = "done", ![t].inner = "dropped",
                             ![t].out = TimeoutErrorResponse, ![t].at = clock]
             ELSE [mw EXCEPT ![t].state = "waiting", ![t].inner = "pending"]
    /\ UNCHANGED <<config, clock, rng, task, job, argon, jar, boot, db, resp>>

\* time passes: while handlers compute, while tasks wait for what they
\* await, and while tasks that were woken wait for a worker
TimePasses(i) ==
    /\ i > clock
    /\ clock' = i
    /\ UNCHANGED <<config, rng, task, job, argon, jar, boot, db, resp, mw>>

TimeoutConfigs ==
    {AppConfig(ValidApp, sv, ValidDatabase,
               Some(AuthSection(TestSecret, Mag(1), Mag(24), Mag(5)))) :
        sv \in {None} \cup {Some(Server(Loopback, 8080, n)) : n \in {0, 1, 2}}}

InitTimeout ==
    /\ config \in TimeoutConfigs
    /\ clock = 0
    /\ rng = [t \in TaskIds |-> 0]
    /\ task = [t \in TaskIds |-> IdleTask]
    /\ job = [t \in TaskIds |-> NoJob]
    /\ argon = {}
    /\ jar = [t \in TaskIds |-> {}]
    /\ boot = Boot("serving", "Ok", TRUE, TRUE)
    /\ db = {}
    /\ resp = NoResponse
    /\ mw = [t \in TaskIds |-> NoMiddleware]

NextTimeout ==
    \/ \E t \in TaskIds : MiddlewareStart(t)
    \/ \E t \in TaskIds : HandlerWakes(t)
    \/ \E t \in TaskIds : TimerFires(t)
    \/ \E t \in TaskIds : HandlerPolled(t)
    \/ \E t \in TaskIds, r \in HandlerResponses : HandlerCompletes(t, r)
    \/ \E t \in TaskIds : HandlerYields(t)
    \/ \E i \in TimeInstants : TimePasses(i)

\* time does not stop, a timer that is due is fired, a task that was woken
\* is polled, and a poll of the handler returns
SpecTimeout ==
    /\ InitTimeout /\ [][NextTimeout]_vars
    /\ WF_vars(\E i \in TimeInstants : TimePasses(i))
    /\ \A t \in TaskIds :
          /\ WF_vars(TimerFires(t))
          /\ WF_vars(HandlerPolled(t))
          /\ WF_vars(HandlerYields(t) \/ \E r \in HandlerResponses : HandlerCompletes(t, r))

-----------------------------------------------------------------------------

Next ==
    \/ \E t \in TaskIds, tt \in TokenTypes, u \in Users, ts \in Readings(clock) :
         CallGenerateTokens(t, tt, u, ts)
    \/ \E t \in TaskIds : ResumePartA(t)
    \/ \E t \in TaskIds : ResumePartB(t)
    \/ \E t \in TaskIds, p \in Passwords : CallHashingHandler(t, p)
    \/ \E t \in TaskIds : ReturnHashingHandler(t)
    \/ \E t \in TaskIds : BlockingWorker(t)
    \/ \E t \in TaskIds, p \in Passwords, h \in Stored : CallVerificationHandler(t, p, h)

Spec == Init /\ [][Next]_vars

\* concurrent requests that call generate_tokens or deploy_auth_cookie on the
\* one AppConfig of AppState
NextShared ==
    \/ \E t \in TaskIds, tt \in TokenTypes, u \in Users, ts \in Readings(clock) :
         CallGenerateTokens(t, tt, u, ts)
    \/ \E t \in TaskIds : ResumePartA(t)
    \/ \E t \in TaskIds : ResumePartB(t)
    \/ \E t \in TaskIds : BlockingWorker(t)
    \/ \E t \in TaskIds, v \in CookieValues : CallDeployAuthCookie(t, v)

SpecShared == Init /\ [][NextShared]_vars

\* the same requests when a hashing closure may fail
NextFaults ==
    \/ Next
    \/ \E t \in TaskIds : BlockingWorkerFails(t)

SpecFaults == Init /\ [][NextFaults]_vars

\* the same requests when a request may be cancelled
InitCancel == Init /\ config = MockConfig

NextCancel ==
    \/ Next
    \/ \E t \in TaskIds : Cancel(t)

\* the blocking pool runs every closure that is queued
SpecCancel ==
    InitCancel /\ [][NextCancel]_vars /\ \A t \in TaskIds : WF_vars(BlockingWorker(t))

-----------------------------------------------------------------------------
(* Helpers of the properties *)

\* the requests that called op and have its outcome
Done(op) == {t \in TaskIds : task[t].op = op /\ task[t].pc = "done"}

\* the generate_tokens calls that returned Ok
Issued == {t \in Done("generate_tokens") : task[t].res.kind = "Ok"}

\* the signed tokens of a TokenSet, each with the kind it was issued as
SignedTokens(tokens) ==
    {[kind |-> "access", jwt |-> Unwrap(tokens.access_token)] :
        x \in {y \in {tokens} : IsSome(y.access_token)}}
    \cup {[kind |-> "refresh", jwt |-> Unwrap(tokens.refresh_token)] :
        x \in {y \in {tokens} : IsSome(y.refresh_token)}}
    \cup {[kind |-> "otp", jwt |-> Unwrap(tokens.one_time_password_token)] :
        x \in {y \in {tokens} : IsSome(y.one_time_password_token)}}

\* the lifetime, in seconds, that the configuration gives a kind of token
ConfiguredLifetime(auth, kind) ==
    IF kind = "access" THEN MagMul(auth.jwt_access_expiration_time_in_hours, 3600)
    ELSE IF kind = "refresh" THEN MagMul(auth.jwt_refresh_expiration_time_in_hours, 3600)
    ELSE MagMul(auth.jwt_one_time_password_lifetime_in_minutes, 60)

\* exp - iat of a payload, as an integer
Validity(payload) == SAdd(SInt(FALSE, payload.exp), SNeg(SInt(FALSE, payload.iat)))

\* |x - y| <= 1
WithinOne(x, y) == MagLe(SAdd(x, SNeg(y)).mag, Mag(1))

\* a PHC string by its grammar: $<id>[$<version>][$<params>][$<salt>[$<hash>]]
IsPhcString(s) ==
    \E v \in {0, 1}, p \in {0, 1}, k \in {0, 1, 2} :
       /\ Len(s) = 2 + v + p + k
       /\ s[1] = Lit("")
       /\ IsIdent(s[2])
       /\ v = 1 => IsVersion(s[3])
       /\ v = 0 /\ Len(s) >= 3 => ~IsVersion(s[3])
       /\ p = 1 => IsParams(s[3 + v])
       /\ p = 0 /\ Len(s) >= 3 + v => ~IsParams(s[3 + v])
       /\ k >= 1 => IsSalt(s[3 + v + p])
       /\ k = 2 => IsOutput(s[4 + v + p])

-----------------------------------------------------------------------------
(* Properties *)

\* C1: a generate_tokens call whose token_type is neither "auth" nor
\* "one_time_password" fails with InvalidTokenType carrying that string
\* (stated for configurations that have an auth section).
C1_InvalidKindFailsLoudly ==
    \A t \in Done("generate_tokens") :
        task[t].token_type \notin {"auth", "one_time_password"} /\ IsSome(config.auth)
        => task[t].res = Err("InvalidTokenType", task[t].token_type)

\* C2: a successful "auth" call returns access_token, refresh_token and
\* auth_cookie present and one_time_password_token absent.
C2_AuthTrack ==
    \A t \in Issued :
        task[t].token_type = "auth"
        => /\ IsSome(task[t].res.tokens.access_token)
           /\ IsSome(task[t].res.tokens.refresh_token)
           /\ IsSome(task[t].res.tokens.auth_cookie)
           /\ IsNone(task[t].res.tokens.one_time_password_token)

C2_Witness == \E t \in Issued : task[t].token_type = "auth"

\* C3: a successful "one_time_password" call returns only
\* one_time_password_token present.
C3_OtpTrack ==
    \A t \in Issued :
        task[t].token_type = "one_time_password"
        => /\ IsSome(task[t].res.tokens.one_time_password_token)
           /\ IsNone(task[t].res.tokens.access_token)
           /\ IsNone(task[t].res.tokens.refresh_token)
           /\ IsNone(task[t].res.tokens.auth_cookie)

C3_Witness == \E t \in Issued : task[t].token_type = "one_time_password"

\* C4: two hashing_handler calls on the same plaintext return different hash
\* strings, and verification_handler accepts the plaintext against each.
C4_FreshSaltAndVerify ==
    \A t \in Done("hashing_handler") :
        /\ task[t].res.kind = "Ok"
        /\ verification_handler(task[t].plain, task[t].res.hash).kind = "Ok"
        /\ verification_handler(task[t].plain, task[t].res.hash).flag
        /\ \A u \in Done("hashing_handler") :
              u # t /\ task[u].plain = task[t].plain
              => task[u].res.hash # task[t].res.hash

C4_Witness ==
    \E t, u \in Done("hashing_handler") : t # u /\ task[t].plain = task[u].plain

\* C5: verification_handler(P, hash(Q)) with P # Q returns Ok(false).
C5_MismatchIsFalse ==
    /\ \A t \in Done("hashing_handler") : \A p \in Passwords \ {task[t].plain} :
          /\ verification_handler(p, task[t].res.hash).kind = "Ok"
          /\ ~verification_handler(p, task[t].res.hash).flag
    /\ \A v \in Done("verification_handler") : \A t \in Done("hashing_handler") :
          task[v].stored = task[t].res.hash /\ task[v].plain # task[t].plain
          => task[v].res.kind = "Ok" /\ ~task[v].res.flag

C5_Witness ==
    \E v \in Done("verification_handler"), t \in Done("hashing_handler") :
        task[v].stored = task[t].res.hash /\ task[v].plain # task[t].plain

\* a well-formed self-describing hash: a PHC string that carries a salt and
\* a digest
IsSelfDescribingHash(s) ==
    /\ IsPhcString(s) /\ Len(s) >= 4
    /\ IsSalt(s[Len(s) - 1]) /\ IsOutput(s[Len(s)])

\* C6: verification_handler returns an error for every stored string that is
\* not a well-formed self-describing hash, whatever the plaintext, never
\* Ok(true) and never Ok(false), and never returns an error for a well-formed
\* one.
C6_MalformedIsError ==
    /\ \A v \in Done("verification_handler") :
          task[v].res.kind = IF IsSelfDescribingHash(task[v].stored) THEN "Ok" ELSE "Err"
    /\ \A h \in Stored, p \in Passwords :
          verification_handler(p, h).kind = IF IsSelfDescribingHash(h) THEN "Ok" ELSE "Err"

\* C7: decoding any token a generate_tokens call returned, with the
\* configured secret, recovers the id and email of the user of that call.
\* The token is decoded at the present instant, which is the instant of the
\* return of the call or later.
C7_ClaimsRoundTrip ==
    \A t \in Issued : \A k \in SignedTokens(task[t].res.tokens) :
        LET claims == decode(k.jwt, Unwrap(config.auth).jwt_secret, UtcNow(clock).mag)
        IN  /\ IsSome(claims)
            /\ Unwrap(claims).id = task[t].user.id
            /\ Unwrap(claims).email = task[t].user.email

\* C8: in every token issued, exp - iat is the lifetime configured for its
\* kind, within one second.
C8_LifetimeAsConfigured ==
    \A t \in Issued : \A k \in SignedTokens(task[t].res.tokens) :
        WithinOne(Validity(k.jwt.payload),
                  SInt(FALSE, ConfiguredLifetime(Unwrap(config.auth), k.kind)))

\* C9: under a configuration that AppConfig::validate accepts, no
\* generate_tokens call panics in its expiry arithmetic.
C9_NoPerRequestOverflow ==
    validate(config) = "Ok" => \A t \in TaskIds : task[t].res.kind # "Panic"

\* C10: every Argon2 computation, of hashing_handler and of
\* verification_handler, runs on a blocking-pool thread while its caller is
\* suspended on the result.
C10_Argon2OffRuntime ==
    /\ \A c \in argon : c.thread = "blocking"
    /\ \A t \in TaskIds : job[t].state # "none" => task[t].pc \notin {"idle", "done"}

\* the variants of JwtError
JwtErrors == {"Jwt", "Hashing", "MissingAuth", "InvalidTokenType"}

\* C11: every generate_tokens call that fails returns a typed error: its
\* outcome is Ok or Err(JwtError), never a panic; a missing auth section gives
\* MissingAuth, an invalid kind InvalidTokenType, a failed hashing Hashing; and
\* an Err carries no token and no cookie value.
C11_TypedErrorsOnly ==
    \A t \in Done("generate_tokens") :
        /\ task[t].res.kind \in {"Ok", "Err"}
        /\ task[t].res.kind = "Err"
           => task[t].res.err \in JwtErrors /\ task[t].res.tokens = NoTokens
        /\ IsNone(config.auth) => task[t].res = Err("MissingAuth", "")

\* the cookies that a finished deploy_auth_cookie call left on its response
Deployed == {t \in Done("deploy_auth_cookie") : task[t].res.kind = "Ok"}

\* C12: with an auth section configured, deploy_auth_cookie adds exactly one
\* cookie: rusty_chat_auth_cookie with the given value, Path=/, HttpOnly,
\* SameSite=Lax and Max-Age = jwt_refresh_expiration_time_in_hours * 3600 s.
C12_CookieAttributes ==
    \A t \in Done("deploy_auth_cookie") :
        IsSome(config.auth)
        => /\ Cardinality(jar[t]) = 1
           /\ \A c \in jar[t] :
                 /\ c.name = "rusty_chat_auth_cookie"
                 /\ c.value = task[t].plain
                 /\ c.path = "/"
                 /\ c.http_only
                 /\ c.same_site = "Lax"
                 /\ c.max_age =
                      SInt(FALSE,
                           MagMul(Unwrap(config.auth).jwt_refresh_expiration_time_in_hours,
                                  3600))

\* C13: the cookie that deploy_auth_cookie attaches has Secure = false exactly
\* when the configured environment is "development"; with any other value,
\* and with no environment configured, Secure = true.
C13_SecureUnlessDevelopment ==
    \A t \in Deployed : \A c \in jar[t] :
        c.secure = (config.app.environment # Some("development"))

C13_Witness ==
    /\ \E t \in Deployed : \E c \in jar[t] : c.secure /\ IsNone(config.app.environment)
    /\ Deployed = TaskIds

\* C14: deploy_auth_cookie does not panic, whatever AppConfig it is called
\* with.
C14_DeployNeverPanics ==
    \A t \in Done("deploy_auth_cookie") : task[t].res.kind # "Panic"

\* the "auth" calls that returned Ok
IssuedAuth == {t \in Issued : task[t].token_type = "auth"}

\* C15: the auth cookie of an "auth" call is the prefix rusty_chat, the
\* delimiter ____, a hash of the user's email, the delimiter and a hash of the
\* secret, each hash with its own fresh salt; two "auth" calls, even for the
\* same user and secret, return different cookie values.
C15_CookieFreshlySalted ==
    \A t \in IssuedAuth :
        LET c == Unwrap(task[t].res.tokens.auth_cookie)
        IN  /\ c.prefix = "rusty_chat" /\ c.delimiter = "____"
            /\ IsPhcString(c.a) /\ IsPhcString(c.b)
            /\ verification_handler(task[t].user.email, c.a).flag
            /\ verification_handler(Unwrap(config.auth).jwt_secret, c.b).flag
            /\ c.a[5] # c.b[5]
            /\ \A u \in IssuedAuth \ {t} :
                  LET d == Unwrap(task[u].res.tokens.auth_cookie)
                  IN  d # c /\ {d.a[5], d.b[5]} \cap {c.a[5], c.b[5]} = {}

C15_Witness ==
    \E t, u \in IssuedAuth : t # u /\ task[t].user = task[u].user

\* C16: the access and the refresh claims of one "auth" call carry the same
\* issued-at value.
C16_SameIssuedAt ==
    \A t \in IssuedAuth :
        LET access == Unwrap(task[t].res.tokens.access_token).payload
            refresh == Unwrap(task[t].res.tokens.refresh_token).payload
        IN  access.iat = refresh.iat

\* the requests that were cancelled
Cancelled == {t \in TaskIds : task[t].pc = "cancelled"}

\* C17: when a request is cancelled while its hash computation is in flight,
\* the computation is not interrupted: it runs on its blocking-pool worker to
\* completion and its output is discarded; the cancelled request never
\* returns anything; and the hash calls of the other requests are neither
\* failed, nor blocked, nor given another result.
C17_CancelLeavesHashRunning ==
    /\ [](\A t \in Cancelled :
            /\ task[t].res = NoResult /\ task[t].tokens = NoTokens
            /\ job[t].state \in {"queued", "discarded"})
    /\ [][\A t \in TaskIds :
            /\ t \in Cancelled => task'[t] = task[t]
            /\ job[t].state = "queued"
               => \/ job'[t] = job[t]
                  \/ /\ job'[t].state \in {"finished", "discarded"}
                     /\ Computation(t, "hash", "blocking") \in argon'
                     /\ rng'[t] = rng[t] + 1
            /\ Cancel(t) => \A u \in TaskIds \ {t} : task'[u] = task[u] /\ job'[u] = job[u]]_vars
    /\ \A t \in TaskIds : (job[t].state = "queued") ~> (job[t].state # "queued")
    /\ [](\A u \in Done("hashing_handler") :
            task[u].res = Result("Ok", "", "", NoTokens,
                                 hash_password(task[u].plain, <<u, 1>>), FALSE))
    /\ [](\A u \in IssuedAuth :
            Unwrap(task[u].res.tokens.auth_cookie) =
              FormatCookie(hash_password(task[u].user.email, <<u, 1>>),
                           hash_password(Unwrap(config.auth).jwt_secret, <<u, 2>>)))

C17_Witness ==
    \E t \in Cancelled : \E u \in IssuedAuth :
        /\ job[t].state = "discarded"
        /\ Computation(t, "hash", "blocking") \in argon
        /\ task[t].op = "generate_tokens"

\* main has looked at the configuration: load_config has returned and, when
\* it returned Ok, validate has too
Decided == boot.pc \notin {"start", "loaded"}

\* C18: main connects the database, binds the listener and serves only after
\* load_config returned Ok and validate returned Ok; with no auth section, a
\* blank secret, or any other load or validation failure, main has returned
\* with the database not connected and the listener not bound.
C18_ServeOnlyValidated ==
    /\ boot.pc \in {"connecting", "connected", "serving"}
         \/ boot.db_connected \/ boot.listener_bound
       => /\ boot.validation = "Ok" /\ validate(config) = "Ok"
          /\ IsSome(config.auth) /\ ~IsBlank(Unwrap(config.auth).jwt_secret)
    /\ Decided /\ (boot.validation = "LoadError" \/ validate(config) # "Ok")
       => boot.pc = "exit" /\ ~boot.db_connected /\ ~boot.listener_bound

C18_Witness ==
    /\ boot.pc = "exit" /\ boot.validation = "MissingAuthSection"
    /\ ~boot.db_connected

\* the checks of validate in their order, each with whether the
\* configuration fails it and the error it gives
Checks(cfg) ==
    <<[fails |-> IsBlank(cfg.app.name), err |-> "MissingAppName"],
      [fails |-> IsNone(cfg.server), err |-> "MissingServerSection"],
      [fails |-> IsSome(cfg.server) /\ Unwrap(cfg.server).port = 0,
       err |-> "InvalidServerPort"],
      [fails |-> IsNone(cfg.database), err |-> "MissingDatabaseSection"],
      [fails |-> IsSome(cfg.database) /\ IsBlank(Unwrap(cfg.database).name),
       err |-> "MissingDatabaseName"],
      [fails |-> IsSome(cfg.database) /\ IsNone(Unwrap(cfg.database).user),
       err |-> "MissingDatabaseUser"],
      [fails |-> IsSome(cfg.database) /\ IsNone(Unwrap(cfg.database).password),
       err |-> "MissingDatabasePassword"],
      [fails |-> IsNone(cfg.auth), err |-> "MissingAuthSection"],
      [fails |-> IsSome(cfg.auth) /\ IsBlank(Unwrap(cfg.auth).jwt_secret),
       err |-> "MissingJwtSecret"]>>

\* C19: validate returns the error of the first check, in the fixed order,
\* that the configuration fails, and Ok exactly when it fails none.
C19_FirstFailingCheck ==
    Decided /\ boot.validation # "LoadError"
    => LET failing == {i \in DOMAIN Checks(config) : Checks(config)[i].fails}
       IN  /\ boot.validation = validate(config)
           /\ failing = {} <=> boot.validation = "Ok"
           /\ \A i \in failing :
                 (\A j \in failing : i <= j) => boot.validation = Checks(config)[i].err

C19_Witness ==
    /\ Decided /\ boot.validation = "MissingServerSection"
    /\ IsNone(config.database) /\ IsNone(config.auth)

\* the registered users with this email whose stored hash is the hash of this
\* password under its salt
RegisteredWith(email, password) ==
    {r \in db : r.email = email /\ r.password = hash_password(password, r.password[5].n)}

\* C20: after any sequence of register and login requests, a login with the
\* email and password of a registered user answers 200 with access_token and
\* refresh_token present; with a registered email and another password it
\* answers 401 "Invalid email or password"; with an email never registered it
\* answers 401; and a login that does not answer 200 returns no token.
C20_LoginOutcomes ==
    resp.request.route = "login"
    => LET req == resp.request
           known == {r \in db : r.email = req.email}
       IN  /\ RegisteredWith(req.email, req.password) # {}
              => /\ resp.status = 200
                 /\ IsSome(resp.access_token) /\ IsSome(resp.refresh_token)
           /\ known # {} /\ RegisteredWith(req.email, req.password) = {}
              => resp.status = 401 /\ resp.error = "Invalid email or password"
           /\ known = {} => resp.status = 401
           /\ resp.status # 200
              => IsNone(resp.access_token) /\ IsNone(resp.refresh_token)
                 /\ resp.cookies = {}

C20_Witness ==
    /\ resp.request.route = "login" /\ resp.status = 200
    /\ IsSome(resp.access_token) /\ IsSome(resp.refresh_token)
    /\ Cardinality(db) = 2

\* a step that answers a /register request
Registers == resp'.request.route = "register" /\ resp'.request.seq = resp.request.seq + 1

\* C21: after any sequence of register requests no two registered users share
\* an email or a phone number; a registration with a registered email is
\* rejected with 403 "Email already exists", one with a new email and a
\* registered phone number with 403 "Phone number already exists", a rejected
\* registration leaves the registered users unchanged, and one with a fresh
\* email and phone number answers 201 and adds that user.
C21_UniqueEmailAndPhone ==
    /\ [](\A r, q \in db :
            r # q => r.email # q.email /\ r.phone_number # q.phone_number /\ r.id # q.id)
    /\ [][Registers =>
            LET req == resp'.request
                email_taken == \E r \in db : r.email = req.email
                phone_taken == \E r \in db : r.phone_number = req.phone_number
            IN  /\ email_taken
                   => resp'.status = 403 /\ resp'.error = "Email already exists"
                /\ ~email_taken /\ phone_taken
                   => resp'.status = 403 /\ resp'.error = "Phone number already exists"
                /\ resp'.status # 201 => db' = db
                /\ ~email_taken /\ ~phone_taken
                   => /\ resp'.status = 201
                      /\ db \subseteq db' /\ Cardinality(db') = Cardinality(db) + 1
                      /\ \E r \in db' \ db :
                            r.email = req.email /\ r.phone_number = req.phone_number]_vars

C21_Witness ==
    /\ resp.request.route = "register" /\ resp.status = 403
    /\ resp.error = "Phone number already exists"
    /\ \E r \in db : r.phone_number = resp.request.phone_number
                     /\ r.email # resp.request.email

\* the outcome of generate_tokens(token_type, user, cfg) run alone as request
\* t with the clock readings ts
Alone(t, token_type, user, cfg, ts) ==
    LET g == generate_tokens_sync(token_type, user, cfg, ts)
    IN  IF g.res.kind # "None" THEN g.res
        ELSE AuthResult(g.tokens,
                        hashing_closure(user.email, SaltStringGenerate(t, 0)),
                        hashing_closure(Unwrap(cfg.auth).jwt_secret,
                                        SaltStringGenerate(t, 1)))

\* C22: concurrent generate_tokens and deploy_auth_cookie calls share nothing
\* mutable: no step changes the config; in every interleaving the outcome of
\* each generate_tokens call is the one it has when run alone with its own
\* clock readings and salts, its tokens carry the id and email of its own
\* user only, and each deploy_auth_cookie call leaves on its own response
\* what it leaves when run alone.
C22_NothingShared ==
    /\ [][config' = config]_vars
    /\ [](\A t \in Done("generate_tokens") :
            /\ \E c \in 0..clock : \E ts \in Readings(c) :
                  task[t].res = Alone(t, task[t].token_type, task[t].user, config, ts)
            /\ \A k \in SignedTokens(task[t].res.tokens) :
                  k.jwt.payload.id = task[t].user.id
                  /\ k.jwt.payload.email = task[t].user.email)
    /\ [](\A t \in Done("deploy_auth_cookie") :
            /\ task[t].res = deploy_auth_cookie({}, task[t].plain, config).res
            /\ jar[t] = deploy_auth_cookie({}, task[t].plain, config).cookies)
    /\ [](\A t \in TaskIds : task[t].op # "deploy_auth_cookie" => jar[t] = {})

C22_Witness ==
    \E t \in IssuedAuth : \E u \in Deployed : jar[u] # {} /\ rng[t] = 2

\* C23: the outcome of a "one_time_password" call depends only on the user,
\* the secret, the clock and the configured OTP lifetime, so with an OTP
\* lifetime that can be added to the clock the call returns Ok whatever the
\* access and refresh expiry settings are; likewise an "auth" call whose
\* access and refresh expiries can be added to the clock returns Ok
\* whatever the OTP lifetime is.
C23_OnlyOwnSettings ==
    \A t \in Done("generate_tokens") :
        IsSome(config.auth)
        => LET auth == Unwrap(config.auth)
               access_ok == Expiration(clock, auth.jwt_access_expiration_time_in_hours,
                                       3600).ok
               refresh_ok == Expiration(clock, auth.jwt_refresh_expiration_time_in_hours,
                                        3600).ok
               otp_ok == Expiration(clock, auth.jwt_one_time_password_lifetime_in_minutes,
                                    60).ok
           IN  /\ task[t].token_type = "one_time_password" /\ otp_ok
                  => task[t].res.kind = "Ok"
               /\ task[t].token_type = "auth" /\ access_ok /\ refresh_ok
                  => task[t].res.kind = "Ok"

\* C24: with a clock that never goes backwards, every token issued has
\* iat <= exp and exp - iat <= the lifetime configured for its kind.
C24_NeverValidLonger ==
    \A t \in Issued : \A k \in SignedTokens(task[t].res.tokens) :
        /\ MagLe(k.jwt.payload.iat, k.jwt.payload.exp)
        /\ SLe(Validity(k.jwt.payload),
               SInt(FALSE, ConfiguredLifetime(Unwrap(config.auth), k.kind)))

\* the requests that timeout_middleware has answered
Answered == {t \in TaskIds : mw[t].state = "done"}

\* server.request_timeout_secs, or 60 with no server section
ConfiguredTimeout ==
    IF IsNone(config.server) THEN 60 ELSE Unwrap(config.server).request_timeout_secs

\* C25: every request that passes through timeout_middleware gets exactly one
\* of two outcomes: the inner handler completes within the configured
\* request_timeout_secs (60 with no server section) and its response is
\* returned unchanged; or it does not, the client gets 408 Request Timeout
\* with the fixed body, not before the deadline, and the response of the
\* handler is never sent. Every request gets its outcome, and the outcome is
\* final.
C25_ResponseOrTimeout ==
    /\ [](\A t \in Answered :
            \/ /\ mw[t].inner = "completed"
               /\ mw[t].out = mw[t].response /\ mw[t].out \in HandlerResponses
               /\ mw[t].at <= mw[t].started + ConfiguredTimeout
            \/ /\ mw[t].inner = "dropped" /\ mw[t].response = NoResponse
               /\ mw[t].out.status = 408 /\ mw[t].out.error = "Request Timeout"
               /\ mw[t].out.response_message =
                    <<"Request exceeded the maximum allowed time of 60 seconds">>
               /\ mw[t].out \notin HandlerResponses
               /\ mw[t].at >= mw[t].started + ConfiguredTimeout)
    /\ [][\A t \in Answered : mw'[t] = mw[t]]_vars
    /\ \A t \in TaskIds : (mw[t].state # "idle") ~> (mw[t].state = "done")

=============================================================================
